---- MODULE Spec2Model ----
(***************************************************************************)
(* State-machine model of the chat relay in src/chat_server.py             *)
(* (class ChatServer).  One asyncio event loop runs every coroutine, so a  *)
(* step of the model is the code a coroutine runs between two points at    *)
(* which it can really be suspended.                                       *)
(*                                                                         *)
(* Strings of the program (user names, room names, message texts, log      *)
(* files) are sequences of one-character strings; the log file of a room   *)
(* is the sequence of bytes written to it.                                 *)
(***************************************************************************)
EXTENDS Integers, Sequences, FiniteSets, TLC

\* ------------------------------------------------------------------------
\* Configuration (module level of chat_server.py) and model bounds
\* ------------------------------------------------------------------------

\* CHAT_HISTORY_SIZE, the capacity of a room's in-memory deque (100 unless the
\* environment sets it).
HISTORY_SIZE == 3

\* CHAT_HISTORY_ON_SUBSCRIBE, the replay count (5 unless the environment sets
\* it).
HISTORY_ON_SUBSCRIBE == 2

\* Number of events from the clients (frames and disconnects) in one run,
\* over all connections.
MaxEvents == 5

\* The websocket objects the server is given, numbered in the order in which
\* their clients first send or disconnect.
ConnOrder == <<"c1", "c2">>

Conns == {ConnOrder[i] : i \in DOMAIN ConnOrder}

\* User names clients log in with.
Usernames == {<<"a">>, <<"b">>}

\* Room names clients use.  Both are sanitised to the log file "d.txt".
Rooms == {<<"d">>, <<"d", ".">>}

\* Message texts.
Messages == {<<"x">>}

\* Absent dictionary entries: dict.get(...) returning None.
NoWs == "None"
NoName == <<>>

\* ------------------------------------------------------------------------
\* JSON values carried by a frame
\* ------------------------------------------------------------------------

\* A str value.
JStr(s) == [str |-> TRUE, v |-> s]

\* null, or a key that is absent (dict.get returns None).
JNull == [str |-> FALSE, v |-> <<>>]

\* A value that is truthy and is not a str (a number, a list).
JNum == [str |-> FALSE, v |-> <<"7">>]

\* Python truthiness of a JSON value ("not x" is its negation).
Truthy(j) == j.v # <<>>

\* isinstance(x, str)
IsStr(j) == j.str

\* A frame that json.loads rejects (JSONDecodeError).
TextFrame ==
  [kind |-> "text", action |-> "", username |-> JNull, room |-> JNull, message |-> JNull]

\* A frame json.loads accepts and that is no dict (list, number, string, null).
NonObjectFrame ==
  [kind |-> "nonobject", action |-> "", username |-> JNull, room |-> JNull, message |-> JNull]

\* A frame that decodes to a dict.
ObjectFrame(a, u, r, m) ==
  [kind |-> "object", action |-> a, username |-> u, room |-> r, message |-> m]

UsernameValues == {JStr(u) : u \in Usernames} \cup {JStr(<<>>), JNum}
RoomValues == {JStr(r) : r \in Rooms} \cup {JNull, JNum}
MessageValues == {JStr(m) : m \in Messages} \cup {JStr(<<>>), JNum}

LoginFrames == {ObjectFrame("login", u, JNull, JNull) : u \in UsernameValues}
SubscribeFrames == {ObjectFrame("subscribe", JNull, r, JNull) : r \in RoomValues}
PublishFrames ==
  {ObjectFrame("publish", JNull, r, m) : r \in RoomValues, m \in MessageValues}
UnknownFrame == ObjectFrame("ping", JNull, JNull, JNull)

\* ------------------------------------------------------------------------
\* State
\* ------------------------------------------------------------------------

VARIABLES
  username_to_ws,       \* self.username_to_ws: name -> websocket (NoWs: no entry)
  ws_to_username,       \* self.ws_to_username: websocket -> name (NoName: no entry)
  room_to_subscribers,  \* self.room_to_subscribers: room -> set of websockets
  ws_to_rooms,          \* self.ws_to_rooms: websocket -> set of rooms
  room_to_history,      \* self.room_to_history: room -> deque(maxlen=HISTORY_SIZE)
  logfile,              \* LOG_DIR: log file path -> bytes of the file
  conn,                 \* state of each websocket's transport
  pc,                   \* where each connection's handler coroutine stands
  sub_room,             \* local variable room of a suspended _handle_subscribe
  ready,                \* the _safe_send tasks created by gather, in run order
  live,                 \* message envelopes written to each websocket, in order
  replay,               \* messages of the last history envelope written to each
  published,            \* every record appended by _handle_publish, in order
  events,               \* number of client events so far (frames, disconnects)
  seen,                 \* the websockets whose client has sent or disconnected
  tail                  \* a call of _read_last_lines_from_log, pass by pass

vars ==
  <<username_to_ws, ws_to_username, room_to_subscribers, ws_to_rooms,
    room_to_history, logfile, conn, pc, sub_room, ready, live, replay,
    published, events, seen, tail>>

\* The five dictionaries of ChatServer as one value.
Server ==
  [u2w |-> username_to_ws, w2u |-> ws_to_username, r2s |-> room_to_subscribers,
   w2r |-> ws_to_rooms, hist |-> room_to_history]

\* The transport of a websocket is "open", "closed_ok" (closed with code 1000:
\* the library raises ConnectionClosedOK), "closed_err" (closed without a close
\* frame, or by the library after the handler raised: ConnectionClosedError)
\* or "closed_4000" (closed by _handle_login: ConnectionClosedError too).
\* websocket.send succeeds on an open connection and raises ConnectionClosed
\* on any other.
IsOpen(ws) == conn[ws] = "open"

\* ------------------------------------------------------------------------
\* Records, deques and the log file
\* ------------------------------------------------------------------------

\* The bytes read per backward step by _read_last_lines_from_log (4096 in the
\* code; small here so that a chunk holds two or three lines of the model).
CHUNK_SIZE == 16

Digit == <<"1", "2", "3", "4", "5", "6", "7", "8", "9">>

\* datetime.now(timezone.utc).isoformat() of the n-th publish of the run: the
\* clock is read once per publish and is taken to advance between publishes.
IsoFormat(n) == <<Digit[n]>>

\* The dict built by _handle_publish and by the log parser.
Record(room, username, message, ts) ==
  [type |-> "message", room |-> room, username |-> username,
   message |-> message, ts |-> ts]

\* list.append(x): the history kept in a plain list, which never evicts.
DequeAppendUnbounded(dq, x, maxlen) == Append(dq, x)

\* deque(maxlen=n).append(x): a full deque drops its leftmost element.
DequeAppend(dq, x, maxlen) ==
  IF maxlen = 0 THEN dq
  ELSE IF Len(dq) >= maxlen THEN Append(Tail(dq), x)
  ELSE Append(dq, x)

\* deque(maxlen=n).appendleft(x): a full deque drops its rightmost element.
DequeAppendLeft(dq, x, maxlen) ==
  IF maxlen = 0 THEN dq
  ELSE IF Len(dq) >= maxlen THEN <<x>> \o SubSeq(dq, 1, maxlen - 1)
  ELSE <<x>> \o dq

\* lst[:count], the slice taken from the wrong end.
SliceFirst(lst, count) ==
  SubSeq(lst, 1, IF Len(lst) > count THEN count ELSE Len(lst))

\* lst[-count:]
SliceLast(lst, count) ==
  IF count = 0 THEN lst
  ELSE IF count > 0
       THEN SubSeq(lst, IF Len(lst) > count THEN Len(lst) - count + 1 ELSE 1, Len(lst))
       ELSE SubSeq(lst, 1 - count, Len(lst))

\* str.isalnum() on the characters of the model, "-" and "_".
SafeChars ==
  {"a", "b", "d", "m", "o", "r", "x", "1", "2", "3", "4", "5", "6", "7", "8", "9",
   "-", "_"}

IsSafeChar(ch) == ch \in SafeChars

\* _room_log_path: the file of a room, named by its sanitised token.
_room_log_path(room) ==
  LET safe_room == SelectSeq(room, IsSafeChar)
  IN IF safe_room = <<>> THEN <<"r", "o", "o", "m">> ELSE safe_room

Paths == {_room_log_path(r) : r \in Rooms}

\* The line _append_to_room_log writes for a record.
LogLine(record) ==
  record.ts \o <<"|">> \o record.username \o <<"|">> \o record.message \o <<"\n">>

\* _append_to_room_log: the files after the line is appended.
_append_to_room_log(files, room, record) ==
  [files EXCEPT ![_room_log_path(room)] = @ \o LogLine(record)]

\* bytes.rfind(b"\n"), 1-based; 0 when there is none.
RFind(buffer, ch) ==
  LET hits == {i \in 1..Len(buffer) : buffer[i] = ch}
  IN IF hits = {} THEN 0 ELSE CHOOSE i \in hits : \A j \in hits : j <= i

\* The inner loop of _read_last_lines_from_log: while the buffer holds a
\* newline, cut what follows the last one and push it on the left of lines.
RECURSIVE ExtractLines(_, _, _)
ExtractLines(buffer, lines, count) ==
  LET idx == RFind(buffer, "\n")
  IN IF idx = 0 THEN [buffer |-> buffer, lines |-> lines]
     ELSE LET line_bytes == SubSeq(buffer, idx + 1, Len(buffer))
              rest == SubSeq(buffer, 1, idx - 1)
          IN ExtractLines(rest,
                          IF line_bytes # <<>>
                          THEN DequeAppendLeft(lines, line_bytes, count)
                          ELSE lines,
                          count)

\* The guard of the outer loop.
MoreChunks(st, count) == st.pointer > 0 /\ Len(st.lines) < count

\* One pass of the outer loop: read the chunk before pointer, put it in front
\* of the buffer, extract lines, and flush the buffer at the start of the file.
ReadChunk(file, st, count) ==
  LET read_size == IF CHUNK_SIZE < st.pointer THEN CHUNK_SIZE ELSE st.pointer
      pointer == st.pointer - read_size
      chunk == SubSeq(file, pointer + 1, pointer + read_size)
      ex == ExtractLines(chunk \o st.buffer, st.lines, count)
  IN IF pointer = 0 /\ ex.buffer # <<>>
     THEN [pointer |-> pointer, buffer |-> <<>>,
           lines |-> DequeAppendLeft(ex.lines, ex.buffer, count)]
     ELSE [pointer |-> pointer, buffer |-> ex.buffer, lines |-> ex.lines]

\* The state before the first pass: f.seek(0, SEEK_END); pointer = f.tell().
ReadStart(file) == [pointer |-> Len(file), buffer |-> <<>>, lines |-> <<>>]

RECURSIVE ReadChunks(_, _, _)
ReadChunks(file, st, count) ==
  IF MoreChunks(st, count) THEN ReadChunks(file, ReadChunk(file, st, count), count)
  ELSE st

\* Position of the n-th "|" of a line (0: there is none).
RECURSIVE FindNth(_, _, _, _)
FindNth(line, ch, n, from) ==
  IF from > Len(line) THEN 0
  ELSE IF line[from] = ch
       THEN IF n = 1 THEN from ELSE FindNth(line, ch, n - 1, from + 1)
       ELSE FindNth(line, ch, n, from + 1)

\* The parsing loop: line.split("|", 2) into ts, username, msg; a line with
\* fewer than three fields raises ValueError and is skipped, an empty line too.
RECURSIVE ParseLines(_, _)
ParseLines(lines, room) ==
  IF lines = <<>> THEN <<>>
  ELSE LET line == Head(lines)
           p1 == FindNth(line, "|", 1, 1)
           p2 == FindNth(line, "|", 2, 1)
       IN IF line = <<>> \/ p2 = 0 THEN ParseLines(Tail(lines), room)
          ELSE <<Record(room, SubSeq(line, p1 + 1, p2 - 1),
                        SubSeq(line, p2 + 1, Len(line)), SubSeq(line, 1, p1 - 1))>>
               \o ParseLines(Tail(lines), room)

\* _read_last_lines_from_log on the files as they are: a missing file and an
\* empty one both give no record.
_read_last_lines_from_log(files, room, count) ==
  LET file == files[_room_log_path(room)]
  IN ParseLines(ReadChunks(file, ReadStart(file), count).lines, room)

\* ------------------------------------------------------------------------
\* _cleanup
\* ------------------------------------------------------------------------

\* A _cleanup that also empties the history of every room it finds without
\* a subscriber.
_cleanup_purging(S, ws) ==
  LET username == S.w2u[ws]
      rooms == S.w2r[ws]
  IN [u2w |-> [n \in Usernames |->
                 IF username # NoName /\ n = username /\ S.u2w[n] = ws
                 THEN NoWs ELSE S.u2w[n]],
      w2u |-> [S.w2u EXCEPT ![ws] = NoName],
      r2s |-> [r \in Rooms |-> IF r \in rooms THEN S.r2s[r] \ {ws} ELSE S.r2s[r]],
      w2r |-> [S.w2r EXCEPT ![ws] = {}],
      hist |-> [r \in Rooms |-> IF S.r2s[r] \ {ws} = {} THEN <<>> ELSE S.hist[r]]]

\* A _cleanup that reads ws_to_rooms with get where the code pops it: the
\* websocket leaves the subscriber sets and keeps its own set of rooms.
_cleanup_keeping_rooms(S, ws) ==
  LET username == S.w2u[ws]
      rooms == S.w2r[ws]
  IN [u2w |-> [n \in Usernames |->
                 IF username # NoName /\ n = username /\ S.u2w[n] = ws
                 THEN NoWs ELSE S.u2w[n]],
      w2u |-> [S.w2u EXCEPT ![ws] = NoName],
      r2s |-> [r \in Rooms |-> IF r \in rooms THEN S.r2s[r] \ {ws} ELSE S.r2s[r]],
      w2r |-> S.w2r,
      hist |-> S.hist]

\* _cleanup(websocket) applied to the dictionaries S: pop the reverse identity
\* entry, drop the name if it still points at this websocket, pop the set of
\* rooms and remove the websocket from each of them.  Histories are kept.
_cleanup(S, ws) ==
  LET username == S.w2u[ws]
      rooms == S.w2r[ws]
  IN [u2w |-> [n \in Usernames |->
                 IF username # NoName /\ n = username /\ S.u2w[n] = ws
                 THEN NoWs ELSE S.u2w[n]],
      w2u |-> [S.w2u EXCEPT ![ws] = NoName],
      r2s |-> [r \in Rooms |-> IF r \in rooms THEN S.r2s[r] \ {ws} ELSE S.r2s[r]],
      w2r |-> [S.w2r EXCEPT ![ws] = {}],
      hist |-> S.hist]

\* ------------------------------------------------------------------------
\* Envelopes and outcomes
\* ------------------------------------------------------------------------

NoReply == [type |-> "none", code |-> "", arg |-> <<>>]

\* _send_ok: {"type": "ok", "event": event, **data}
OkEnvelope(event, arg) == [type |-> "ok", code |-> event, arg |-> arg]

\* _send_error: {"type": "error", "code": code, "message": ...}
ErrorEnvelope(code) == [type |-> "error", code |-> code, arg |-> <<>>]

\* What a call of a handler coroutine does, up to its next suspension:
\*   S       the dictionaries it leaves
\*   reply   the ok or error envelope it wrote to its own websocket
\*   raised  the exception that left the handler ("none": none)
\*   pc      where the handler stands afterwards
\*   conn    the transport of its websocket afterwards
Outcome(S, reply, raised, at, transport) ==
  [S |-> S, reply |-> reply, raised |-> raised, pc |-> at, conn |-> transport]

\* A branch that ends with one _send_ok or _send_error to its own websocket,
\* the dictionaries being S when it sends.  On a closed websocket the send
\* raises ConnectionClosed; the except clause of handler calls _cleanup and
\* the handler returns.
Replied(S, cs, ws, reply) ==
  IF cs[ws] = "open"
  THEN Outcome(S, reply, "none", "recv", cs[ws])
  ELSE Outcome(_cleanup(S, ws), NoReply, "ConnectionClosed", "done", cs[ws])

\* The dictionaries after the step are those of S.
Install(S) ==
  /\ username_to_ws' = S.u2w
  /\ ws_to_username' = S.w2u
  /\ room_to_subscribers' = S.r2s
  /\ ws_to_rooms' = S.w2r
  /\ room_to_history' = S.hist

\* The handler of ws goes on as the outcome o says.
Resume(ws, o) ==
  /\ Install(o.S)
  /\ pc' = [pc EXCEPT ![ws] = o.pc]
  /\ conn' = [conn EXCEPT ![ws] = o.conn]

\* ------------------------------------------------------------------------
\* The branches of the handler, as functions of the state they run in
\* ------------------------------------------------------------------------

\* json.loads raises JSONDecodeError: invalid_json, and the loop continues.
\* json.loads returning a value that is no dict makes data.get raise
\* AttributeError, which no except clause of handler catches: the handler
\* ends without _cleanup and the library closes the connection.
handler_decode(S, cs, ws, frame) ==
  IF frame.kind = "text"
  THEN Replied(S, cs, ws, ErrorEnvelope("invalid_json"))
  ELSE Outcome(S, NoReply, "AttributeError", "crashed",
               IF cs[ws] = "open" THEN "closed_err" ELSE cs[ws])

\* An else branch that drops the state of the sender with its error.
handler_unknown_dropping(S, cs, ws, data) ==
  Replied(_cleanup(S, ws), cs, ws, ErrorEnvelope("unknown_action"))

\* The else branch of the dispatch.
handler_unknown(S, cs, ws, data) ==
  Replied(S, cs, ws, ErrorEnvelope("unknown_action"))

\* The test made on the wrong dictionary: no user name is a key of
\* ws_to_username, so no name is ever found taken.
UsernameTakenWrongDict(S, username) == S.u2w[username] # S.u2w[username]

\* The test _handle_login makes before it binds the name.
UsernameTaken(S, username) == S.u2w[username] # NoWs

_handle_login(S, cs, ws, data) ==
  LET username == data.username IN
  IF ~Truthy(username) \/ ~IsStr(username)
  THEN Replied(S, cs, ws, ErrorEnvelope("invalid_username"))
  ELSE IF UsernameTaken(S, username.v)
  THEN LET o == Replied(S, cs, ws, ErrorEnvelope("username_taken"))
       IN IF o.raised = "none"
          THEN [o EXCEPT !.conn = "closed_4000"]   \* websocket.close(code=4000)
          ELSE o
  ELSE Replied([S EXCEPT !.u2w[username.v] = ws, !.w2u[ws] = username.v],
               cs, ws, OkEnvelope("login_ok", username.v))

\* _handle_subscribe up to the await of _send_ok; the handler then stands
\* before _send_recent_history.
_handle_subscribe(S, cs, ws, data) ==
  LET room == data.room IN
  IF ~Truthy(room) \/ ~IsStr(room)
  THEN Replied(S, cs, ws, ErrorEnvelope("invalid_room"))
  ELSE LET o == Replied([S EXCEPT !.r2s[room.v] = @ \cup {ws},
                                  !.w2r[ws] = @ \cup {room.v}],
                        cs, ws, OkEnvelope("subscribed", room.v))
       IN IF o.raised = "none" THEN [o EXCEPT !.pc = "history"] ELSE o

\* The seeding loop of _send_recent_history.
RECURSIVE SeedHistory(_, _)
SeedHistory(dq, recs) ==
  IF recs = <<>> THEN dq
  ELSE SeedHistory(DequeAppend(dq, Head(recs), HISTORY_SIZE), Tail(recs))

\* room_to_history[room] when _send_recent_history slices it: an empty deque
\* is first filled from the log file.
HistoryForReplay(hist, files, room) ==
  IF Len(hist[room]) = 0
  THEN SeedHistory(hist[room], _read_last_lines_from_log(files, room, HISTORY_SIZE))
  ELSE hist[room]

\* _send_recent_history: the messages of the history envelope are the field
\* sent of the outcome (<<>>: no envelope is sent).
_send_recent_history(S, files, cs, ws, room, count) ==
  LET dq == HistoryForReplay(S.hist, files, room)
      recent == SliceLast(dq, count)
      S1 == [S EXCEPT !.hist[room] = dq]
  IN IF recent = <<>> \/ cs[ws] = "open"
     THEN [S |-> S1, sent |-> recent, raised |-> "none", pc |-> "recv", conn |-> cs[ws]]
     ELSE [S |-> _cleanup(S1, ws), sent |-> <<>>, raised |-> "ConnectionClosed",
           pc |-> "done", conn |-> cs[ws]]

\* A login test that lets every publisher through.
NeverRefused(username) == FALSE

\* "if not username" of _handle_publish, username being what ws_to_username
\* holds for the websocket.
NotLoggedIn(username) == username = NoName

\* _handle_publish up to the await of gather.  record is the record appended
\* (a sequence of none or one), subs the snapshot _broadcast takes.
_handle_publish(S, files, cs, ws, data, now) ==
  LET room == data.room
      message == data.message
      username == S.w2u[ws]
      refused(code) ==
        [o |-> Replied(S, cs, ws, ErrorEnvelope(code)), files |-> files,
         record |-> <<>>, subs |-> {}]
  IN IF ~Truthy(room) \/ ~IsStr(room) THEN refused("invalid_room")
     ELSE IF ~IsStr(message) \/ message.v = <<>> THEN refused("invalid_message")
     ELSE IF NotLoggedIn(username) THEN refused("not_logged_in")
     ELSE LET record == Record(room.v, username, message.v, now)
              S1 == [S EXCEPT !.hist[room.v] = DequeAppend(@, record, HISTORY_SIZE)]
              subs == S.r2s[room.v]
          IN [o |-> Outcome(S1, NoReply, "none",
                            IF subs = {} THEN "recv" ELSE "gather", cs[ws]),
              files |-> _append_to_room_log(files, room.v, record),
              record |-> <<record>>, subs |-> subs]

\* _handle_publish when _append_to_room_log raises OSError (the log directory
\* is gone, the disk is full): the record is in the history already, nothing
\* catches the exception, so _broadcast is not reached and the handler ends
\* without _cleanup; the library closes the connection.  The file is taken
\* to be left as it was.
_handle_publish_oserror(S, files, cs, ws, data, now) ==
  LET r == _handle_publish(S, files, cs, ws, data, now)
  IN IF r.record = <<>> THEN r
     ELSE [o |-> Outcome(r.o.S, NoReply, "OSError", "crashed",
                         IF cs[ws] = "open" THEN "closed_err" ELSE cs[ws]),
           files |-> files, record |-> r.record, subs |-> {}]

\* _handle_logout: logout_ok, _cleanup, close(code=1000).
_handle_logout(S, cs, ws) ==
  LET o == Replied(S, cs, ws, OkEnvelope("logout_ok", <<>>))
  IN IF o.raised = "none"
     THEN [o EXCEPT !.S = _cleanup(S, ws), !.conn = "closed_ok"]
     ELSE o

\* A _safe_send that swallows ConnectionClosed and cleans nothing up.
_safe_send_no_cleanup(S, cs, ws, payload) ==
  IF cs[ws] = "open"
  THEN [S |-> S, delivered |-> <<payload>>]
  ELSE [S |-> S, delivered |-> <<>>]

\* One _safe_send task: send the payload, or on ConnectionClosed call _cleanup.
_safe_send(S, cs, ws, payload) ==
  IF cs[ws] = "open"
  THEN [S |-> S, delivered |-> <<payload>>]
  ELSE [S |-> _cleanup(S, ws), delivered |-> <<>>]

\* The body of the loop of handler for one frame, up to the next suspension:
\* json.loads, then the dispatch on data.get("action").  files, record and
\* subs are those of _handle_publish; the other branches write no file and
\* broadcast nothing.
handler_dispatch(S, files, cs, ws, frame, now) ==
  LET quiet(o) == [o |-> o, files |-> files, record |-> <<>>, subs |-> {}]
  IN IF frame.kind # "object" THEN quiet(handler_decode(S, cs, ws, frame))
     ELSE IF frame.action = "login" THEN quiet(_handle_login(S, cs, ws, frame))
     ELSE IF frame.action = "subscribe" THEN quiet(_handle_subscribe(S, cs, ws, frame))
     ELSE IF frame.action = "publish" THEN _handle_publish(S, files, cs, ws, frame, now)
     ELSE IF frame.action = "logout" THEN quiet(_handle_logout(S, cs, ws))
     ELSE quiet(handler_unknown(S, cs, ws, frame))

\* The "async for" finds the connection closed and no frame left: after
\* ConnectionClosedOK the loop just ends; ConnectionClosedError reaches the
\* except clause, which calls _cleanup.
handler_closed(S, cs, ws) ==
  IF cs[ws] = "closed_ok"
  THEN Outcome(S, NoReply, "none", "done", cs[ws])
  ELSE Outcome(_cleanup(S, ws), NoReply, "ConnectionClosed", "done", cs[ws])

\* ------------------------------------------------------------------------
\* The steps of the event loop
\* ------------------------------------------------------------------------

\* The client of ws does something: a frame arrives or the transport goes
\* down.  Websockets are interchangeable, so the first event of a websocket
\* comes after the first event of the one numbered before it.
ClientEvent(ws) ==
  /\ events < MaxEvents
  /\ events' = events + 1
  /\ \A i \in DOMAIN ConnOrder :
       (i > 1 /\ ConnOrder[i] = ws) => ConnOrder[i - 1] \in seen
  /\ seen' = seen \cup {ws}

\* The "async for" of handler yields the next frame of ws.
Recv(ws) ==
  /\ pc[ws] = "recv"
  /\ ClientEvent(ws)

\* The handler of ws takes a frame that json.loads rejects or that is no dict.
handler_on_undecodable(ws, frame) ==
  /\ Recv(ws)
  /\ Resume(ws, handler_decode(Server, conn, ws, frame))
  /\ UNCHANGED <<logfile, sub_room, ready, live, replay, published, tail>>

handler_on_unknown(ws) ==
  /\ Recv(ws)
  /\ Resume(ws, handler_unknown(Server, conn, ws, UnknownFrame))
  /\ UNCHANGED <<logfile, sub_room, ready, live, replay, published, tail>>

handler_on_login(ws, data) ==
  /\ Recv(ws)
  /\ Resume(ws, _handle_login(Server, conn, ws, data))
  /\ UNCHANGED <<logfile, sub_room, ready, live, replay, published, tail>>

handler_on_subscribe(ws, data) ==
  LET o == _handle_subscribe(Server, conn, ws, data)
  IN /\ Recv(ws)
     /\ Resume(ws, o)
     /\ sub_room' = [sub_room EXCEPT ![ws] = IF o.pc = "history" THEN data.room.v ELSE @]
     /\ UNCHANGED <<logfile, ready, live, replay, published, tail>>

\* _handle_subscribe resumed after _send_ok.
handler_send_history(ws) ==
  LET o == _send_recent_history(Server, logfile, conn, ws, sub_room[ws],
                                HISTORY_ON_SUBSCRIBE)
  IN /\ pc[ws] = "history"
     /\ Resume(ws, o)
     /\ sub_room' = [sub_room EXCEPT ![ws] = <<>>]
     /\ replay' = [replay EXCEPT ![ws] = IF o.sent # <<>> THEN o.sent ELSE @]
     /\ UNCHANGED <<logfile, ready, live, published, events, seen, tail>>

\* The orders in which list(set) may enumerate a set of websockets.
Orderings(S) ==
  {o \in [1..Cardinality(S) -> S] : \A i, j \in 1..Cardinality(S) : o[i] = o[j] => i = j}

\* A fan-out that goes through the snapshot twice.
SendTasksTwice(order, record, owner) ==
  [i \in 1..(2 * Len(order)) |->
     [ws |-> order[((i - 1) % Len(order)) + 1], payload |-> record, owner |-> owner]]

\* A fan-out that echoes the message to the publisher as well.
SendTasksWithEcho(order, record, owner) ==
  [i \in 1..(Len(order) + 1) |->
     [ws |-> IF i <= Len(order) THEN order[i] ELSE owner,
      payload |-> record, owner |-> owner]]

\* The _safe_send coroutines _broadcast hands to gather, which makes them
\* tasks in this order.
SendTasks(order, record, owner) ==
  [i \in 1..Len(order) |-> [ws |-> order[i], payload |-> record, owner |-> owner]]

handler_on_publish(ws, data) ==
  /\ Recv(ws)
  /\ LET r == _handle_publish(Server, logfile, conn, ws, data,
                              IsoFormat(Len(published) + 1))
     IN /\ Resume(ws, r.o)
        /\ logfile' = r.files
        /\ published' = published \o r.record
        /\ IF r.subs = {}
           THEN ready' = ready
           ELSE \E order \in Orderings(r.subs) :
                  ready' = ready \o SendTasks(order, r.record[1], ws)
  /\ UNCHANGED <<sub_room, live, replay, tail>>

\* A publish that reaches _append_to_room_log, whose write fails.
handler_on_publish_oserror(ws, data) ==
  /\ Recv(ws)
  /\ LET r == _handle_publish_oserror(Server, logfile, conn, ws, data,
                                      IsoFormat(Len(published) + 1))
     IN /\ r.record # <<>>
        /\ Resume(ws, r.o)
        /\ logfile' = r.files
        /\ published' = published \o r.record
  /\ UNCHANGED <<sub_room, ready, live, replay, tail>>

handler_on_logout(ws) ==
  /\ Recv(ws)
  /\ Resume(ws, _handle_logout(Server, conn, ws))
  /\ UNCHANGED <<logfile, sub_room, ready, live, replay, published, tail>>

\* A loop that runs its ready tasks in any order.
RunnableAnyOrder(queue) == 1..Len(queue)

\* The tasks of the event loop's queue that may run next: asyncio runs ready
\* callbacks first in, first out, and a _safe_send task reaches its write (or
\* its exception) in its first run.
Runnable(queue) == IF queue = <<>> THEN {} ELSE {1}

\* The queue without its i-th task.
Without(queue, i) == SubSeq(queue, 1, i - 1) \o SubSeq(queue, i + 1, Len(queue))

\* A _safe_send task runs.  gather returns to the publishing handler, which
\* goes back to its loop, when the last of its tasks has ended.
task_safe_send(i) ==
  LET task == ready[i]
      rest == Without(ready, i)
      o == _safe_send(Server, conn, task.ws, task.payload)
  IN /\ ready' = rest
     /\ Install(o.S)
     /\ live' = [live EXCEPT ![task.ws] = @ \o o.delivered]
     /\ pc' = [pc EXCEPT ![task.owner] =
                 IF \A k \in 1..Len(rest) : rest[k].owner # task.owner
                 THEN "recv" ELSE @]
     /\ UNCHANGED <<logfile, conn, sub_room, replay, published, events, seen, tail>>

\* The remote side closes with a close handshake (code 1000).
remote_close(ws) ==
  /\ IsOpen(ws)
  /\ ClientEvent(ws)
  /\ conn' = [conn EXCEPT ![ws] = "closed_ok"]
  /\ UNCHANGED <<username_to_ws, ws_to_username, room_to_subscribers, ws_to_rooms,
                 room_to_history, logfile, pc, sub_room, ready, live, replay,
                 published, tail>>

\* The remote side goes away without a close frame (code 1006).
remote_abort(ws) ==
  /\ IsOpen(ws)
  /\ ClientEvent(ws)
  /\ conn' = [conn EXCEPT ![ws] = "closed_err"]
  /\ UNCHANGED <<username_to_ws, ws_to_username, room_to_subscribers, ws_to_rooms,
                 room_to_history, logfile, pc, sub_room, ready, live, replay,
                 published, tail>>

\* The loop of the handler finds the connection closed.
handler_on_closed(ws) ==
  /\ pc[ws] = "recv"
  /\ ~IsOpen(ws)
  /\ Resume(ws, handler_closed(Server, conn, ws))
  /\ UNCHANGED <<logfile, sub_room, ready, live, replay, published, events, seen, tail>>

\* ------------------------------------------------------------------------
\* The server
\* ------------------------------------------------------------------------

\* ChatServer() on an empty log directory, every connection accepted and its
\* handler waiting for the first frame.
\* ChatServer() with the log directory holding files: every dictionary is
\* empty, whatever the directory holds.
InitOnLogs(files) ==
  /\ username_to_ws = [n \in Usernames |-> NoWs]
  /\ ws_to_username = [c \in Conns |-> NoName]
  /\ room_to_subscribers = [r \in Rooms |-> {}]
  /\ ws_to_rooms = [c \in Conns |-> {}]
  /\ room_to_history = [r \in Rooms |-> <<>>]
  /\ logfile = files
  /\ conn = [c \in Conns |-> "open"]
  /\ pc = [c \in Conns |-> "recv"]
  /\ sub_room = [c \in Conns |-> <<>>]
  /\ ready = <<>>
  /\ live = [c \in Conns |-> <<>>]
  /\ replay = [c \in Conns |-> <<>>]
  /\ published = <<>>
  /\ events = 0
  /\ seen = {}

InitServer == InitOnLogs([p \in Paths |-> <<>>])

\* No call of the log reader is followed pass by pass.
NoTail ==
  [phase |-> "idle", file |-> <<>>, count |-> 0,
   st |-> [pointer |-> 0, buffer |-> <<>>, lines |-> <<>>], out |-> <<>>]

Init ==
  /\ InitServer
  /\ tail = NoTail

Next ==
  \/ \E ws \in Conns, frame \in {TextFrame, NonObjectFrame} :
       handler_on_undecodable(ws, frame)
  \/ \E ws \in Conns : handler_on_unknown(ws)
  \/ \E ws \in Conns, data \in LoginFrames : handler_on_login(ws, data)
  \/ \E ws \in Conns, data \in SubscribeFrames : handler_on_subscribe(ws, data)
  \/ \E ws \in Conns : handler_send_history(ws)
  \/ \E ws \in Conns, data \in PublishFrames : handler_on_publish(ws, data)
  \/ \E ws \in Conns : handler_on_logout(ws)
  \/ \E i \in Runnable(ready) : task_safe_send(i)
  \/ \E ws \in Conns : remote_close(ws)
  \/ \E ws \in Conns : remote_abort(ws)
  \/ \E ws \in Conns : handler_on_closed(ws)

Spec == Init /\ [][Next]_vars

\* The server on a disk whose writes can fail.
NextDisk ==
  \/ Next
  \/ \E ws \in Conns, data \in PublishFrames : handler_on_publish_oserror(ws, data)

SpecDisk == Init /\ [][NextDisk]_vars

\* The room whose log is read.
TailRoom == <<"d">>

\* Lines of the longest log an earlier run of the server has left.
MaxOldLines == 4

\* The log an earlier run has left after n publishes to TailRoom; its
\* timestamps lie before those of this run.
RECURSIVE OldLog(_)
OldLog(n) ==
  IF n = 0 THEN <<>>
  ELSE OldLog(n - 1)
         \o LogLine(Record(TailRoom, <<"a">>, <<"x">>, <<"0">> \o IsoFormat(n)))

\* The server is started again on the log directory of an earlier run.
InitRestart ==
  /\ \E n \in 0..MaxOldLines : InitOnLogs([p \in Paths |-> OldLog(n)])
  /\ tail = NoTail

SpecRestart == InitRestart /\ [][Next]_vars

\* ------------------------------------------------------------------------
\* _read_last_lines_from_log on its own
\* ------------------------------------------------------------------------

\* Lines of the longest log the reader is given.
MaxLines == 4

\* The largest count the reader is called with.
MaxCount == 3

\* Message texts of the logs read; the second holds the field separator.
TailMessages == {<<"x">>, <<"x", "|", "x">>}

\* The logs of n lines _append_to_room_log can have written: the i-th line is
\* the record of the i-th publish.
RECURSIVE FilesOfLen(_)
FilesOfLen(n) ==
  IF n = 0 THEN {<<>>}
  ELSE {f \o LogLine(Record(TailRoom, <<"a">>, m, IsoFormat(n))) :
          f \in FilesOfLen(n - 1), m \in TailMessages}

TailFiles == UNION {FilesOfLen(n) : n \in 0..MaxLines}

server_vars ==
  <<username_to_ws, ws_to_username, room_to_subscribers, ws_to_rooms,
    room_to_history, logfile, conn, pc, sub_room, ready, live, replay,
    published, events, seen>>

\* _read_last_lines_from_log(room, count) is called on a log: the file is
\* open and the pointer stands at its end.
InitTail ==
  /\ InitServer
  /\ \E file \in TailFiles, count \in 1..MaxCount :
       tail = [phase |-> "reading", file |-> file, count |-> count,
               st |-> ReadStart(file), out |-> <<>>]

\* One pass of "while pointer > 0 and len(lines) < count".
tail_read_chunk ==
  /\ tail.phase = "reading"
  /\ MoreChunks(tail.st, tail.count)
  /\ tail' = [tail EXCEPT !.st = ReadChunk(tail.file, @, tail.count)]
  /\ UNCHANGED server_vars

\* The loop has ended: the lines are parsed and the records returned.
tail_parse ==
  /\ tail.phase = "reading"
  /\ ~MoreChunks(tail.st, tail.count)
  /\ tail' = [tail EXCEPT !.phase = "done",
                          !.out = ParseLines(tail.st.lines, TailRoom)]
  /\ UNCHANGED server_vars

NextTail ==
  \/ tail_read_chunk
  \/ tail_parse

SpecTail == InitTail /\ [][NextTail]_vars

\* ------------------------------------------------------------------------
\* Properties
\* ------------------------------------------------------------------------

\* The records published to a room, in publish order.
PublishedTo(room) == SelectSeq(published, LAMBDA rec : rec.room = room)

\* The position of a record in a sequence that holds it once.
IndexIn(seq, x) == CHOOSE i \in 1..Len(seq) : seq[i] = x

\* The last k elements of a sequence of at least k.
LastOf(seq, k) == SubSeq(seq, Len(seq) - k + 1, Len(seq))

LoginAs(n) == ObjectFrame("login", JStr(n), JNull, JNull)

\* C1 (name uniqueness): in every reachable state at most one connection is
\* bound to a given name, in either index; and a login with a name bound to a
\* different, still open connection is answered username_taken (when the
\* asking connection can still be written to) and leaves the binding of the
\* name and the reverse entry of its owner as they were.
C1_NameUniqueness ==
  /\ \A n \in Usernames :
       Cardinality({c \in Conns : ws_to_username[c] = n \/ username_to_ws[n] = c}) <= 1
  /\ \A c, d \in Conns, n \in Usernames :
       (c # d /\ username_to_ws[n] = d /\ IsOpen(d)) =>
         LET o == _handle_login(Server, conn, c, LoginAs(n))
         IN /\ IsOpen(c) => o.reply = ErrorEnvelope("username_taken")
            /\ o.S.u2w[n] = d
            /\ o.S.w2u[d] = ws_to_username[d]

\* Two events have happened: d has logged in with n, and c, asking for the
\* same name, has been refused and closed with code 4000.
C1_Witness ==
  \E c, d \in Conns, n \in Usernames :
    /\ c # d
    /\ events = 2
    /\ username_to_ws[n] = d /\ ws_to_username[d] = n /\ IsOpen(d)
    /\ conn[c] = "closed_4000" /\ ws_to_username[c] = NoName

\* C2 (identity is 1:1): username_to_ws and ws_to_username are mutual
\* inverses in every reachable state.
C2_IdentityOneToOne ==
  \A n \in Usernames, c \in Conns :
    username_to_ws[n] = c <=> ws_to_username[c] = n

\* C3 (per-room total order): every live message a connection has received
\* is a published record, and two live messages of the same room were
\* received in the order in which they were published.
C3_PerRoomOrder ==
  \A c \in Conns :
    /\ \A i \in 1..Len(live[c]) : \E k \in 1..Len(published) : published[k] = live[c][i]
    /\ \A i, j \in 1..Len(live[c]) :
         (i < j /\ live[c][i].room = live[c][j].room) =>
           IndexIn(published, live[c][i]) < IndexIn(published, live[c][j])

\* A connection has received two live messages of one room published by two
\* different users.
C3_Witness ==
  \E c \in Conns : \E i, j \in 1..Len(live[c]) :
    /\ i < j
    /\ live[c][i].room = live[c][j].room
    /\ live[c][i].username # live[c][j].username

\* C4 (replay on a fresh room): when a subscribe on an open connection
\* reaches its replay and more than HISTORY_ON_SUBSCRIBE records have been
\* published to the room, the history envelope it sends holds exactly the
\* last HISTORY_ON_SUBSCRIBE records published to the room, oldest first, as
\* they were published.
C4_ReplayFreshRoom ==
  [][\A c \in Conns :
       (/\ pc[c] = "history" /\ pc'[c] # "history"
        /\ IsOpen(c)
        /\ Len(PublishedTo(sub_room[c])) > HISTORY_ON_SUBSCRIBE) =>
         replay'[c] = LastOf(PublishedTo(sub_room[c]), HISTORY_ON_SUBSCRIBE)]_vars

\* A connection holds a replay that is the last HISTORY_ON_SUBSCRIBE of the
\* more than HISTORY_ON_SUBSCRIBE records published to a room.
C4_Witness ==
  \E c \in Conns, r \in Rooms :
    /\ HISTORY_ON_SUBSCRIBE > 0
    /\ Len(PublishedTo(r)) > HISTORY_ON_SUBSCRIBE
    /\ replay[c] = LastOf(PublishedTo(r), HISTORY_ON_SUBSCRIBE)

\* The lines of a file read forward: the text before each newline.
RECURSIVE SplitLines(_, _)
SplitLines(file, line) ==
  IF file = <<>> THEN (IF line = <<>> THEN <<>> ELSE <<line>>)
  ELSE IF Head(file) = "\n" THEN <<line>> \o SplitLines(Tail(file), <<>>)
  ELSE SplitLines(Tail(file), Append(line, Head(file)))

\* The records of the last count lines of a file read forward.
ForwardLastLines(file, room, count) ==
  LET lines == SplitLines(file, <<>>)
  IN ParseLines(IF Len(lines) > count THEN LastOf(lines, count) ELSE lines, room)

\* C5 (tail-read equivalence): for a log of well-formed lines and a count of
\* at least 1, _read_last_lines_from_log returns the records of the last
\* count lines of the file read forward.
C5_TailReadEquivalence ==
  tail.phase = "done" =>
    tail.out = ForwardLastLines(tail.file, TailRoom, tail.count)

\* C6 (broadcast under partial failure): a publish that finds subscribers is
\* answered with no envelope and raises nothing; each _safe_send task of its
\* fan-out either writes the message to an open subscriber and changes no
\* dictionary, or, the subscriber being disconnected, releases its identity
\* and removes it from every subscriber set; and the publisher's handler stays
\* in gather until its last task has ended and then waits for its next frame.
C6_BroadcastPartialFailure ==
  /\ [](\A c \in Conns, data \in PublishFrames :
          LET r == _handle_publish(Server, logfile, conn, c, data,
                                   IsoFormat(Len(published) + 1))
          IN r.subs # {} =>
               /\ r.o.reply = NoReply
               /\ r.o.raised = "none"
               /\ r.o.pc = "gather")
  /\ [][(ready # <<>> /\ ready' = Tail(ready)) =>
          LET t == Head(ready)
              name == ws_to_username[t.ws]
          IN /\ IsOpen(t.ws) =>
                  /\ live'[t.ws] = Append(live[t.ws], t.payload)
                  /\ UNCHANGED <<username_to_ws, ws_to_username,
                                 room_to_subscribers, ws_to_rooms>>
             /\ ~IsOpen(t.ws) =>
                  /\ live' = live
                  /\ ws_to_username'[t.ws] = NoName
                  /\ name # NoName => username_to_ws'[name] # t.ws
                  /\ \A room \in Rooms : t.ws \notin room_to_subscribers'[room]
                  /\ ws_to_rooms'[t.ws] = {}
             /\ pc[t.owner] = "gather"
             /\ pc'[t.owner] =
                  IF \E k \in 1..Len(ready') : ready'[k].owner = t.owner
                  THEN "gather" ELSE "recv"]_vars

\* A publisher waits in gather; its message has been written to the healthy
\* subscriber s1, and the task that is left is for s2, which is disconnected
\* and still in the subscriber set of the room.
C6_Witness ==
  \E p, s1, s2 \in Conns :
    /\ s1 # s2
    /\ pc[p] = "gather"
    /\ Len(ready) = 1
    /\ ready[1].owner = p /\ ready[1].ws = s2
    /\ ~IsOpen(s2)
    /\ s2 \in room_to_subscribers[ready[1].payload.room]
    /\ IsOpen(s1)
    /\ \E i \in 1..Len(live[s1]) : live[s1][i] = ready[1].payload

\* C7 (disconnect leads to cleanup): once the handler of a connection whose
\* remote side has disconnected, abruptly or by a close handshake, has ended,
\* _cleanup has run for it: the connection has no identity left (the name it
\* held is released) and it is in no subscriber set.
C7_DisconnectCleansUp ==
  \A c \in Conns :
    (pc[c] = "done" /\ conn[c] \in {"closed_ok", "closed_err"}) =>
      /\ ws_to_username[c] = NoName
      /\ ws_to_rooms[c] = {}
      /\ \A r \in Rooms : c \notin room_to_subscribers[r]

\* C8 (cleanup idempotence): in every reachable state and for every
\* connection, a second _cleanup leaves the dictionaries (identity indexes,
\* room directory, history cache) as the first left them, and a _cleanup of a
\* connection without identity and subscriptions leaves them as they are.
C8_CleanupIdempotent ==
  \A ws \in Conns :
    /\ _cleanup(_cleanup(Server, ws), ws) = _cleanup(Server, ws)
    /\ (ws_to_username[ws] = NoName /\ ws_to_rooms[ws] = {}) =>
         _cleanup(Server, ws) = Server

\* The handler of a disconnected subscriber has ended with its _cleanup, and
\* a _safe_send task of another connection's publish is still to run for it.
C8_Witness ==
  /\ ready # <<>>
  /\ LET t == Head(ready)
     IN /\ t.owner # t.ws
        /\ conn[t.ws] = "closed_err"
        /\ pc[t.ws] = "done"
        /\ ws_to_username[t.ws] = NoName
        /\ ws_to_rooms[t.ws] = {}
        /\ room_to_history[t.payload.room] # <<>>

\* What _handle_publish does for websocket c and frame data in this state.
PublishNow(c, data) ==
  _handle_publish(Server, logfile, conn, c, data, IsoFormat(Len(published) + 1))

\* Nothing is appended to a history or a log, and nothing is broadcast.
NothingPublished(r) ==
  /\ r.record = <<>>
  /\ r.files = logfile
  /\ r.subs = {}
  /\ r.o.S.hist = room_to_history

\* C9 as stated (publish requires login): a publish on a connection without
\* identity is answered not_logged_in whatever its room and message are, and
\* appends and broadcasts nothing.
C9_AnonymousPublishNotLoggedIn ==
  \A c \in Conns, data \in PublishFrames :
    (ws_to_username[c] = NoName /\ IsOpen(c)) =>
      /\ PublishNow(c, data).o.reply = ErrorEnvelope("not_logged_in")
      /\ NothingPublished(PublishNow(c, data))

\* C9 (publish requires login), as the code has it: a publish on a connection
\* without identity appends and broadcasts nothing; on an open connection it
\* changes no dictionary and is answered invalid_room when the room is
\* missing or no string, else invalid_message when the message is empty or no
\* string, and not_logged_in only when room and message are both valid.
C9_AnonymousPublishRefused ==
  \A c \in Conns, data \in PublishFrames :
    ws_to_username[c] = NoName =>
      /\ NothingPublished(PublishNow(c, data))
      /\ IsOpen(c) =>
           /\ PublishNow(c, data).o.S = Server
           /\ PublishNow(c, data).o.pc = "recv"
           /\ PublishNow(c, data).o.reply =
                IF ~Truthy(data.room) \/ ~IsStr(data.room)
                THEN ErrorEnvelope("invalid_room")
                ELSE IF ~IsStr(data.message) \/ ~Truthy(data.message)
                THEN ErrorEnvelope("invalid_message")
                ELSE ErrorEnvelope("not_logged_in")

\* An anonymous connection waits for its next frame on an open transport; it
\* is subscribed to a room that has history, so a publish it sent would have
\* a history to append to and a subscriber to reach.
C9_Witness ==
  \E c \in Conns, r \in Rooms :
    /\ ws_to_username[c] = NoName
    /\ IsOpen(c)
    /\ pc[c] = "recv"
    /\ c \in room_to_subscribers[r]
    /\ room_to_history[r] # <<>>

\* C10 (malformed frames are survivable): no handler ends on an exception,
\* and a frame that is no JSON text, or JSON that is no object, is answered
\* invalid_json on an open connection, which stays open, keeps its handler
\* waiting for the next frame and keeps its identity and subscriptions.
C10_MalformedFramesSurvivable ==
  /\ \A c \in Conns : pc[c] # "crashed"
  /\ \A c \in Conns, frame \in {TextFrame, NonObjectFrame} :
       IsOpen(c) =>
         LET o == handler_decode(Server, conn, c, frame)
         IN /\ o.reply = ErrorEnvelope("invalid_json")
            /\ o.conn = "open"
            /\ o.pc = "recv"
            /\ o.S = Server

\* C11 (log durability is independent of delivery): a publish of a logged-in
\* connection with valid room and message whose log append fails goes on as
\* one whose append succeeds: it raises nothing, it is broadcast to the same
\* subscribers, and the publisher's handler and connection are where they
\* would be.
C11_LogFailureStillDelivers ==
  \A c \in Conns, data \in PublishFrames :
    LET ok == PublishNow(c, data)
        failed == _handle_publish_oserror(Server, logfile, conn, c, data,
                                          IsoFormat(Len(published) + 1))
    IN ok.record # <<>> =>
         /\ failed.o.raised = "none"
         /\ failed.subs = ok.subs
         /\ failed.o.pc = ok.o.pc
         /\ failed.o.conn = conn[c]

\* C12 (subscription index consistency): in every reachable state a
\* connection is in the subscriber set of a room exactly when the room is in
\* the connection's set of rooms.
C12_SubscriptionIndexes ==
  \A c \in Conns, r \in Rooms :
    c \in room_to_subscribers[r] <=> r \in ws_to_rooms[c]

\* One connection is subscribed to every room; another has disconnected
\* after a subscribe and is still in the directory, its cleanup pending.
C12_Witness ==
  \E c, d \in Conns :
    /\ c # d
    /\ ws_to_rooms[c] = Rooms
    /\ ws_to_rooms[d] # {}
    /\ ~IsOpen(d)
    /\ pc[d] = "recv"

LogoutFrame == ObjectFrame("logout", JNull, JNull, JNull)

\* Every frame a client of the model sends.
AllFrames ==
  {TextFrame, NonObjectFrame, UnknownFrame, LogoutFrame}
    \cup LoginFrames \cup SubscribeFrames \cup PublishFrames

ErrorCodes ==
  {"invalid_json", "invalid_username", "username_taken", "invalid_room",
   "invalid_message", "not_logged_in", "unknown_action"}

\* C13 (errors are local and free of side effects): whenever a frame is
\* answered with an error envelope, its code is one of the seven, no
\* dictionary and no log file changes, nothing is appended or broadcast, and
\* the handler waits for the next frame on a connection that is still open,
\* except after username_taken, where the server has closed it with 4000.
C13_ErrorsAreLocal ==
  \A c \in Conns, frame \in AllFrames :
    LET r == handler_dispatch(Server, logfile, conn, c, frame,
                              IsoFormat(Len(published) + 1))
    IN r.o.reply.type = "error" =>
         /\ r.o.reply.code \in ErrorCodes
         /\ r.o.S = Server
         /\ r.files = logfile
         /\ r.record = <<>>
         /\ r.subs = {}
         /\ r.o.raised = "none"
         /\ r.o.pc = "recv"
         /\ r.o.conn = IF r.o.reply.code = "username_taken" THEN "closed_4000" ELSE "open"

\* A connection with an identity and a subscription has asked for a name
\* that is taken: it was answered and closed with 4000, and its identity and
\* subscription are as they were.
C13_Witness ==
  \E c \in Conns :
    /\ conn[c] = "closed_4000"
    /\ pc[c] = "recv"
    /\ ws_to_username[c] # NoName
    /\ username_to_ws[ws_to_username[c]] = c
    /\ ws_to_rooms[c] # {}

\* The replay counts a server can be configured with, in the model.
ReplayCounts == 0..(HISTORY_SIZE + 1)

\* C14 (replay length bound): for every replay count K >= 0 and every
\* reachable history, the history envelope of a subscribe holds at most K
\* messages; with K = 0 none is sent.
C14_ReplayLengthBound ==
  \A count \in ReplayCounts, c \in Conns, r \in Rooms :
    IsOpen(c) =>
      Len(_send_recent_history(Server, logfile, conn, c, r, count).sent) <= count

\* The records of a whole log file read forward, for a room.
ForwardRecords(file, room) == ParseLines(SplitLines(file, <<>>), room)

\* C16 (replay reflects the log when the cache is cold): on a server started
\* on an existing log, the history envelope of a subscribe to a room holds
\* the last min(HISTORY_ON_SUBSCRIBE, n) of the n records of the room's log
\* file as it stands then, oldest first.
C16_ColdCacheReplay ==
  \A c \in Conns, r \in Rooms :
    IsOpen(c) =>
      LET recs == ForwardRecords(logfile[_room_log_path(r)], r)
          sent == _send_recent_history(Server, logfile, conn, c, r,
                                       HISTORY_ON_SUBSCRIBE).sent
      IN sent = IF Len(recs) > HISTORY_ON_SUBSCRIBE
                THEN LastOf(recs, HISTORY_ON_SUBSCRIBE) ELSE recs

SubscribeTo(r) == ObjectFrame("subscribe", JNull, JStr(r), JNull)

\* No element occurs twice in the sequence.
NoRepeats(seq) == \A i, j \in 1..Len(seq) : seq[i] = seq[j] => i = j

\* C15 (subscribe idempotence): a subscribe of an open connection to a room
\* it is subscribed to changes no dictionary; a publish to the room by a
\* logged-in connection has it in its snapshot; the fan-out holds at most
\* one task per connection and record, and no connection receives a live
\* record twice.
C15_SubscribeIdempotent ==
  /\ \A c \in Conns, r \in Rooms :
       (IsOpen(c) /\ r \in ws_to_rooms[c]) =>
         /\ _handle_subscribe(Server, conn, c, SubscribeTo(r)).S = Server
         /\ \A p \in Conns, m \in Messages :
              ws_to_username[p] # NoName =>
                c \in PublishNow(p, ObjectFrame("publish", JNull, JStr(r), JStr(m))).subs
  /\ NoRepeats([i \in 1..Len(ready) |-> <<ready[i].ws, ready[i].payload>>])
  /\ \A c \in Conns : NoRepeats(live[c])

\* One connection alone has logged in, subscribed, published, subscribed to
\* the same room again (the replay of that subscribe is its first record)
\* and published again: it has received each record once.
C15_Witness ==
  \E c \in Conns :
    /\ seen = {c}
    /\ events = 5
    /\ Len(live[c]) = 2
    /\ live[c][1].room = live[c][2].room
    /\ replay[c] = <<live[c][1]>>
    /\ ready = <<>>

\* The log file of the room holds only records published to the room.
OwnLog(r) ==
  \A k \in 1..Len(published) :
    _room_log_path(published[k].room) = _room_log_path(r) => published[k].room = r

\* C17 (bounded FIFO history): the history of every room holds at most
\* HISTORY_SIZE records, and the history of a room whose log file holds
\* nothing but its own records of this run is the last min(HISTORY_SIZE, n)
\* of the n records published to it, in publish order.
C17_BoundedFifoHistory ==
  \A r \in Rooms :
    /\ Len(room_to_history[r]) <= HISTORY_SIZE
    /\ OwnLog(r) =>
         room_to_history[r] =
           IF Len(PublishedTo(r)) > HISTORY_SIZE
           THEN LastOf(PublishedTo(r), HISTORY_SIZE) ELSE PublishedTo(r)

\* More than HISTORY_SIZE records have been published to a room and its
\* history is full: the oldest has been evicted.
C17_Witness ==
  \E r \in Rooms :
    /\ OwnLog(r)
    /\ Len(PublishedTo(r)) > HISTORY_SIZE
    /\ Len(room_to_history[r]) = HISTORY_SIZE
    /\ room_to_history[r][1] # PublishedTo(r)[1]

\* C18 (live delivery is exact and at most once): no connection holds a live
\* record twice, and an open connection holds live records only of rooms it
\* is subscribed to; a publish creates exactly one send task for each
\* connection in the room's subscriber set as it is then, and none for any
\* other; and a live record reaches a connection only by such a task, as the
\* next record of that connection's stream.
C18_LiveDeliveryExact ==
  /\ [](\A c \in Conns :
          /\ NoRepeats(live[c])
          /\ IsOpen(c) => \A i \in 1..Len(live[c]) : live[c][i].room \in ws_to_rooms[c])
  /\ [][/\ Len(published') > Len(published) =>
             LET rec == published'[Len(published')]
                 new == SubSeq(ready', Len(ready) + 1, Len(ready'))
             IN /\ ready' = ready \o new
                /\ {new[i].ws : i \in 1..Len(new)} = room_to_subscribers[rec.room]
                /\ Len(new) = Cardinality(room_to_subscribers[rec.room])
                /\ \A i \in 1..Len(new) : new[i].payload = rec
        /\ Len(published') = Len(published) =>
             (ready' = ready \/ (ready # <<>> /\ ready' = Tail(ready)))
        /\ \A c \in Conns :
             live'[c] # live[c] =>
               /\ ready # <<>>
               /\ ready' = Tail(ready)
               /\ Head(ready).ws = c
               /\ live'[c] = Append(live[c], Head(ready).payload)]_vars

\* A record of one room has been published and delivered: the connection
\* subscribed to that room has it, the connection subscribed only to the
\* other room has received nothing.
C18_Witness ==
  \E c, d \in Conns, r \in Rooms :
    /\ c # d
    /\ ready = <<>>
    /\ ws_to_rooms[c] = {r}
    /\ ws_to_rooms[d] = Rooms \ {r}
    /\ IsOpen(c) /\ IsOpen(d)
    /\ Len(live[c]) = 1 /\ live[c][1].room = r
    /\ live[d] = <<>>

\* C19 (room isolation of history): every message of a history envelope a
\* connection has received is a record that was published, to the room the
\* message names (the room of the subscribe).
C19_HistoryRoomIsolation ==
  \A c \in Conns : \A i \in 1..Len(replay[c]) :
    \E k \in 1..Len(published) : published[k] = replay[c][i]

\* C20 (no duplicate between live delivery and replay): no record a
\* connection has received as a live message is in the history envelope it
\* has received.
C20_NoLiveReplayDuplicate ==
  \A c \in Conns : \A i \in 1..Len(live[c]) : \A j \in 1..Len(replay[c]) :
    live[c][i] # replay[c][j]

====
